---- MODULE Spec2Model ----
(***************************************************************************)
(* shadow.js (the shadow-git-activity engine): one run reads the source    *)
(* history, filters it by author, reads the ledger and the artifact of the *)
(* target repository and then, commit by commit, sizes the diff, mutates   *)
(* the in-memory line buffer and either previews or writes, stages and     *)
(* commits the artifact.  Runs follow one another on the same source       *)
(* history and the same target repository.                                 *)
(*                                                                         *)
(* A string is a sequence of atoms; " ", "\n" and "<US>" are the one-atom  *)
(* separators the code splits and joins on.                                *)
(***************************************************************************)
EXTENDS Integers, Sequences, FiniteSets, TLC

\* ------------------------------------------------------------ bounds
MaxCommits == 2
MaxLines == 2
MaxFailures == 1

\* ------------------------------------------------------------ strings
SP == " "
NL == "\n"
US == "<US>"
Undefined == <<"undefined">>

Min(a, b) == IF a < b THEN a ELSE b

Max(a, b) == IF a < b THEN b ELSE a

RECURSIVE Split(_, _)
\* String.prototype.split(sep): the segments between the separators; the
\* empty string splits into one empty segment.
Split(s, sep) ==
  LET at == {i \in 1..Len(s) : s[i] = sep}
  IN  IF at = {} THEN <<s>>
      ELSE LET i == CHOOSE k \in at : \A m \in at : k <= m
           IN  <<SubSeq(s, 1, i - 1)>> \o Split(SubSeq(s, i + 1, Len(s)), sep)

RECURSIVE Join(_, _)
\* Array.prototype.join(sep): no separator before the first or after the last
\* element; the empty array joins to the empty string.
Join(segs, sep) ==
  IF segs = <<>> THEN <<>>
  ELSE IF Len(segs) = 1 THEN segs[1]
  ELSE segs[1] \o <<sep>> \o Join(Tail(segs), sep)

IsSpace(a) == a \in {SP, NL}

RECURSIVE Trim(_)
\* String.prototype.trim()
Trim(s) ==
  IF s = <<>> THEN s
  ELSE IF IsSpace(s[1]) THEN Trim(Tail(s))
  ELSE IF IsSpace(s[Len(s)]) THEN Trim(SubSeq(s, 1, Len(s) - 1))
  ELSE s

Digits(n) == ToString(n)

IsDigits(a) == \E n \in 0..(MaxLines + 1) : Digits(n) = a

\* parseInt(a, 10) of a run of digits
ParseInt(a) == CHOOSE n \in 0..(MaxLines + 1) : Digits(n) = a

\* ------------------------------------------------------------ configuration
config ==
  [ commitAuthorEmailsSource |-> << <<"alice@x">> >>,
    commitAuthorNameTarget   |-> <<"Public">>,
    commitAuthorEmailTarget  |-> <<"public@x">> ]

\* ------------------------------------------------------------ source repository
\* The commits of the source branch, oldest first, as git holds them: short
\* id, author email, author date, the line counts `git show --shortstat`
\* reports, and whether the commit is a merge.
Sha(i) == <<"h" \o ToString(i)>>

Date(i) == <<"t" \o ToString(i)>>

\* a commit touches at most MaxLines lines
Magnitudes ==
  {m \in [ins : 0..MaxLines, del : 0..MaxLines] : m.ins + m.del <= MaxLines}

CommitKinds ==
  {[author |-> <<"alice@x">>, ins |-> m.ins, del |-> m.del, merge |-> FALSE] :
      m \in Magnitudes}
  \cup {[author |-> <<"alice@x">>, ins |-> 1, del |-> 0, merge |-> TRUE],
        [author |-> <<"Alice@x">>, ins |-> 1, del |-> 0, merge |-> FALSE]}

Histories ==
  UNION {{[i \in 1..n |->
             [sha |-> Sha(i), author |-> k[i].author, date |-> Date(i),
              ins |-> k[i].ins, del |-> k[i].del, merge |-> k[i].merge]] :
            k \in [1..n -> CommitKinds]} : n \in 0..MaxCommits}

Reverse(s) == [i \in 1..Len(s) |-> s[Len(s) + 1 - i]]

SelectNoMerges(hist) == SelectSeq(hist, LAMBDA c : ~c.merge)

\* the options of the `git log` command line the code builds
LogArgsNewestFirst == [reverse |-> FALSE, noMerges |-> FALSE]

LogArgs == [reverse |-> TRUE, noMerges |-> FALSE]

\* `git log <branch> [--reverse] [--no-merges] --pretty=format:"%h%x1f%ae%x1f%aI"`:
\* git lists newest first unless --reverse is given.
GitLogSource(hist, args) ==
  LET kept  == IF args.noMerges THEN SelectNoMerges(hist) ELSE hist
      order == IF args.reverse THEN kept ELSE Reverse(kept)
      lines == [i \in 1..Len(order) |->
                  Join(<<order[i].sha, order[i].author, order[i].date>>, US)]
  IN  Join(lines, NL)

Field(parts, i) == IF i <= Len(parts) THEN parts[i] ELSE Undefined

getCommitsDataFromRepoSource(hist) ==
  LET commitLog == Trim(GitLogSource(hist, LogArgs))
      logLines  == Split(Trim(commitLog), NL)
  IN  [i \in 1..Len(logLines) |->
         LET parts == Split(logLines[i], US)
         IN  [commitShaSource         |-> Field(parts, 1),
              commitAuthorEmailSource |-> Field(parts, 2),
              commitAuthorDateSource  |-> Field(parts, 3)]]

Lower(a) == IF a = "Alice@x" THEN "alice@x" ELSE a

IncludesIgnoringCase(list, x) ==
  \E i \in 1..Len(list) : [k \in 1..Len(list[i]) |-> Lower(list[i][k])]
                             = [k \in 1..Len(x) |-> Lower(x[k])]

\* Array.prototype.includes: strict equality with a member
Includes(list, x) == \E i \in 1..Len(list) : list[i] = x

FilterByAuthorKeepingAll(commits) == commits

FilterByAuthor(commits) ==
  SelectSeq(commits,
            LAMBDA c : Includes(config.commitAuthorEmailsSource, c.commitAuthorEmailSource))

\* the source commit a short id names
SourceOf(hist, sha) == CHOOSE i \in 1..Len(hist) : hist[i].sha = sha

IsSource(hist, sha) == \E i \in 1..Len(hist) : hist[i].sha = sha

\* `git show --shortstat --oneline <sha> --`: the one-line header, then the
\* summary line, which git leaves out when no line changed and which names
\* only the non-zero counts.
Plural(n, word) == IF n = 1 THEN word ELSE word \o "s"

GitShowShortstat(c) ==
  <<c.sha[1], SP, "subject">>
  \o (IF c.ins = 0 /\ c.del = 0 THEN <<>>
      ELSE <<NL, SP, "1", SP, "file", SP, "changed">>
           \o (IF c.ins > 0
               THEN <<",", SP, Digits(c.ins), SP, Plural(c.ins, "insertion") \o "(+)">>
               ELSE <<>>)
           \o (IF c.del > 0
               THEN <<",", SP, Digits(c.del), SP, Plural(c.del, "deletion") \o "(-)">>
               ELSE <<>>))

\* text.match(/(\d+) <word>s?<sign>/): the number of the leftmost match, 0 when
\* there is none
MatchCount(text, word, sign) ==
  LET hits == {i \in 1..(Len(text) - 2) :
                 /\ IsDigits(text[i])
                 /\ text[i + 1] = SP
                 /\ text[i + 2] \in {word \o sign, word \o "s" \o sign}}
  IN  IF hits = {} THEN 0
      ELSE ParseInt(text[CHOOSE i \in hits : \A j \in hits : i <= j])

\* diffStat is bound as the one element of a set so that it is computed once
getInsertionsDeletionsFromCommit(c) ==
  CHOOSE r \in {[commitInsertions |-> MatchCount(diffStat, "insertion", "(+)"),
                 commitDeletions  |-> MatchCount(diffStat, "deletion", "(-)")] :
                  diffStat \in {Trim(GitShowShortstat(c))}} : TRUE

\* ------------------------------------------------------------ target repository
NoFile == [exists |-> FALSE, content |-> <<>>]

File(content) == [exists |-> TRUE, content |-> content]

\* a commit made by hand in the target repository before the first run
ForeignCommit ==
  [message |-> <<"init">>, authorName |-> <<"someone">>, authorEmail |-> <<"someone@x">>,
   authorDate |-> <<"t0">>, committerName |-> <<"someone">>,
   committerEmail |-> <<"someone@x">>, committerDate |-> <<"t0">>, artifact |-> NoFile]

\* the artifact as the tip commit of the target holds it
HeadArtifact(tgt) == IF tgt = <<>> THEN NoFile ELSE tgt[Len(tgt)].artifact

\* `git log --pretty=format:"%s" --reverse` in the target
GitLogTarget(tgt) == Join([i \in 1..Len(tgt) |-> tgt[i].message], NL)

getShadowedShasSplitOnSpace(tgt) ==
  LET commitMessages == Split(Trim(GitLogTarget(tgt)), SP)
  IN  [i \in 1..Len(commitMessages) |-> commitMessages[i]]

LastToken(commitMessage) ==
  LET commitMessageParts == Split(commitMessage, SP)
  IN  commitMessageParts[Len(commitMessageParts)]

\* the leading token of a commit message
FirstToken(commitMessage) ==
  LET commitMessageParts == Split(commitMessage, SP)
  IN  commitMessageParts[1]

getShadowedShas(tgt) ==
  LET commitMessages == Split(Trim(GitLogTarget(tgt)), NL)
  IN  [i \in 1..Len(commitMessages) |-> FirstToken(commitMessages[i])]

Range(s) == {s[i] : i \in 1..Len(s)}

getShadowLogLines(file) ==
  IF ~file.exists THEN <<>> ELSE Split(file.content, NL)

writeLinesToShadowLogFile(lines) == File(Join(lines, NL))

\* ------------------------------------------------------------ buffer and message
Fill(n, x) == [i \in 1..n |-> x]

ApplyDiffKeepingOne(lines, ins, del, sha) ==
  SubSeq(lines, 1, Len(lines) - Min(del, Max(0, Len(lines) - 1))) \o Fill(ins, sha)

ApplyDiffAppendFirst(lines, ins, del, sha) ==
  LET grown == lines \o Fill(ins, sha)
  IN  SubSeq(grown, 1, Len(grown) - Min(del, Len(grown)))

ApplyDiffClearing(lines, ins, del, sha) ==
  (IF del > 0 THEN <<>> ELSE lines) \o Fill(ins, sha)

\* delete from the end, clamped to the length, then append
ApplyDiff(lines, ins, del, sha) ==
  LET shadowLogLinesToDelete == Min(del, Len(lines))
  IN  SubSeq(lines, 1, Len(lines) - shadowLogLinesToDelete) \o Fill(ins, sha)

FormatMessageDateFirst(c, ins, del) ==
  Join(<<c.commitAuthorDateSource, c.commitShaSource, <<"+" \o Digits(ins)>>,
         <<"-" \o Digits(del)>>, c.commitAuthorEmailSource>>, SP)

\* `${sha} ${date} +${insertions} -${deletions} ${email}`
FormatMessage(c, ins, del) ==
  Join(<<c.commitShaSource, c.commitAuthorDateSource, <<"+" \o Digits(ins)>>,
         <<"-" \o Digits(del)>>, c.commitAuthorEmailSource>>, SP)

IsZeroDiffTypo(ins, del) == ins = 0 /\ del # 0

IsZeroDiff(ins, del) == ins = 0 /\ del = 0

\* ------------------------------------------------------------ state
VARIABLES
  history,        \* the source branch, oldest first (does not change)
  target,         \* the commits of the target repository, oldest first
  disk,           \* the artifact in the target's working tree
  index,          \* the artifact as staged in the target's index
  failures,       \* external failures so far (git errors, terminations)
  pc,             \* where the process is
  dryRun,         \* --dry-run
  filtered,       \* filteredCommitsDataFromRepoSource
  shadowedShas,   \* the ledger read at run start
  shadowLogLines, \* the buffer
  idx,            \* position of the loop in filtered
  stat,           \* the magnitude of the commit at idx
  commitMessage,  \* the message of the commit at idx
  emitted,        \* the "Created shadow commit" lines printed by this run
  signal,         \* how the run ended
  before,         \* history variable: the buffer before its last mutation
  start,          \* history variable: target, disk, index and buffer at run start
  past            \* history variable: what earlier normal-mode runs did

vars == <<history, target, disk, index, failures, pc, dryRun, filtered, shadowedShas,
          shadowLogLines, idx, stat, commitMessage, emitted, signal, before, start,
          past>>

durable == <<history, target, disk, index>>

memory == <<filtered, shadowedShas, shadowLogLines, idx, stat, commitMessage>>

NoStat == [commitInsertions |-> 0, commitDeletions |-> 0]

Terminal == {"done", "exited", "aborted"}

Init ==
  /\ history \in Histories
  /\ target \in {<<>>, <<ForeignCommit>>}
  /\ disk = NoFile
  /\ index = NoFile
  /\ failures = 0
  /\ pc = "idle"
  /\ dryRun = FALSE
  /\ filtered = <<>>
  /\ shadowedShas = {}
  /\ shadowLogLines = <<>>
  /\ idx = 1
  /\ stat = NoStat
  /\ commitMessage = <<>>
  /\ emitted = <<>>
  /\ signal = ""
  /\ before = <<>>
  /\ start = [target |-> target, disk |-> NoFile, index |-> NoFile, lines |-> <<>>]
  /\ past = [done |-> FALSE, aborted |-> FALSE]

\* ------------------------------------------------------------ one run
\* the process is started, with or without --dry-run
Start ==
  /\ pc \in Terminal \cup {"idle"}
  /\ \E d \in BOOLEAN : dryRun' = d
  /\ pc' = "source"
  /\ filtered' = <<>>
  /\ shadowedShas' = {}
  /\ shadowLogLines' = <<>>
  /\ idx' = 1
  /\ stat' = NoStat
  /\ commitMessage' = <<>>
  /\ emitted' = <<>>
  /\ signal' = ""
  /\ before' = <<>>
  /\ start' = [target |-> target, disk |-> disk, index |-> index, lines |-> <<>>]
  /\ past' = [done    |-> past.done \/ (pc = "done" /\ ~dryRun),
              aborted |-> past.aborted \/ (pc = "aborted" /\ ~dryRun)]
  /\ UNCHANGED <<durable, failures>>

\* main, up to the author filter
LoadSource ==
  /\ pc = "source"
  /\ LET commitsDataFromRepoSource == getCommitsDataFromRepoSource(history)
         f == FilterByAuthor(commitsDataFromRepoSource)
     IN  /\ filtered' = f
         /\ IF Len(commitsDataFromRepoSource) = 0
            THEN pc' = "exited" /\ signal' = "NoCommits"
            ELSE IF Len(f) = 0
            THEN pc' = "exited" /\ signal' = "NoMatchingAuthors"
            ELSE pc' = "target" /\ signal' = signal
  /\ UNCHANGED <<durable, failures, dryRun, shadowedShas, shadowLogLines, idx, stat,
                 commitMessage, emitted, before, start, past>>

\* main: the ledger and the buffer are read; `git log` fails in a repository
\* that has no commit yet
LoadTarget ==
  /\ pc = "target"
  /\ IF target = <<>>
     THEN /\ pc' = "aborted"
          /\ signal' = "LedgerUnavailable"
          /\ UNCHANGED <<shadowedShas, shadowLogLines, start>>
     ELSE /\ shadowedShas' = Range(getShadowedShas(target))
          /\ shadowLogLines' = getShadowLogLines(disk)
          /\ start' = [start EXCEPT !.lines = getShadowLogLines(disk)]
          /\ pc' = "check"
          /\ signal' = signal
  /\ UNCHANGED <<durable, failures, dryRun, filtered, idx, stat, commitMessage,
                 emitted, before, past>>

AlreadyShadowedByDate(c, ledger) == c.commitAuthorDateSource \in ledger

\* shadowedShas.has(commitShaSource)
AlreadyShadowed(c, ledger) == c.commitShaSource \in ledger

CheckLedgerStaying ==
  /\ pc = "check"
  /\ idx <= Len(filtered)
  /\ IF AlreadyShadowed(filtered[idx], shadowedShas)
     THEN idx' = idx /\ pc' = "check"
     ELSE idx' = idx /\ pc' = "size"
  /\ UNCHANGED <<durable, failures, dryRun, filtered, shadowedShas, shadowLogLines,
                 stat, commitMessage, emitted, signal, before, start, past>>

\* the loop head: an already shadowed commit is skipped
CheckLedger ==
  /\ pc = "check"
  /\ idx <= Len(filtered)
  /\ IF AlreadyShadowed(filtered[idx], shadowedShas)
     THEN idx' = idx + 1 /\ pc' = "check"
     ELSE idx' = idx /\ pc' = "size"
  /\ UNCHANGED <<durable, failures, dryRun, filtered, shadowedShas, shadowLogLines,
                 stat, commitMessage, emitted, signal, before, start, past>>

\* the diff stat of the commit is read; a zero-diff commit is skipped
Size ==
  /\ pc = "size"
  /\ LET c == history[SourceOf(history, filtered[idx].commitShaSource)]
         s == getInsertionsDeletionsFromCommit(c)
     IN  /\ stat' = s
         /\ IF IsZeroDiff(s.commitInsertions, s.commitDeletions)
            THEN idx' = idx + 1 /\ pc' = "check"
            ELSE idx' = idx /\ pc' = "mutate"
  /\ UNCHANGED <<durable, failures, dryRun, filtered, shadowedShas, shadowLogLines,
                 commitMessage, emitted, signal, before, start, past>>

\* the buffer is mutated and the message formatted
Mutate ==
  /\ pc = "mutate"
  /\ shadowLogLines' = ApplyDiff(shadowLogLines, stat.commitInsertions,
                                 stat.commitDeletions, filtered[idx].commitShaSource)
  /\ commitMessage' = FormatMessage(filtered[idx], stat.commitInsertions,
                                    stat.commitDeletions)
  /\ before' = shadowLogLines
  /\ pc' = "emit"
  /\ UNCHANGED <<durable, failures, dryRun, filtered, shadowedShas, idx, stat, emitted,
                 signal, start, past>>

PreviewShaOnly ==
  /\ pc = "emit"
  /\ dryRun
  /\ emitted' = Append(emitted, filtered[idx].commitShaSource)
  /\ idx' = idx + 1
  /\ pc' = "check"
  /\ UNCHANGED <<durable, failures, dryRun, filtered, shadowedShas, shadowLogLines,
                 stat, commitMessage, signal, before, start, past>>

\* --dry-run: the message is printed and nothing else happens
Preview ==
  /\ pc = "emit"
  /\ dryRun
  /\ emitted' = Append(emitted, commitMessage)
  /\ idx' = idx + 1
  /\ pc' = "check"
  /\ UNCHANGED <<durable, failures, dryRun, filtered, shadowedShas, shadowLogLines,
                 stat, commitMessage, signal, before, start, past>>

WriteArtifactAlways ==
  /\ pc = "emit"
  /\ disk' = writeLinesToShadowLogFile(shadowLogLines)
  /\ pc' = IF dryRun THEN "emit" ELSE "add"
  /\ UNCHANGED <<history, target, index, failures, dryRun, memory, emitted, signal,
                 before, start, past>>

WriteArtifactStale ==
  /\ pc = "emit"
  /\ ~dryRun
  /\ disk' = writeLinesToShadowLogFile(before)
  /\ pc' = "add"
  /\ UNCHANGED <<history, target, index, failures, dryRun, memory, emitted, signal,
                 before, start, past>>

\* createShadowCommit: the artifact is overwritten with the buffer
WriteArtifact ==
  /\ pc = "emit"
  /\ ~dryRun
  /\ disk' = writeLinesToShadowLogFile(shadowLogLines)
  /\ pc' = "add"
  /\ UNCHANGED <<history, target, index, failures, dryRun, memory, emitted, signal,
                 before, start, past>>

\* createShadowCommit: `git add shadow-activity.log`
StageArtifact ==
  /\ pc = "add"
  /\ index' = disk
  /\ pc' = "commit"
  /\ UNCHANGED <<history, target, disk, failures, dryRun, memory, emitted, signal,
                 before, start, past>>

\* the identity and clock git falls back on for what the environment leaves out
LocalIdentity == [name |-> <<"someone">>, email |-> <<"someone@x">>, now |-> <<"now">>]

CommitEnvNoCommitter(commitAuthorDateSource) ==
  [GIT_AUTHOR_NAME     |-> config.commitAuthorNameTarget,
   GIT_AUTHOR_EMAIL    |-> config.commitAuthorEmailTarget,
   GIT_AUTHOR_DATE     |-> commitAuthorDateSource,
   GIT_COMMITTER_NAME  |-> LocalIdentity.name,
   GIT_COMMITTER_EMAIL |-> LocalIdentity.email,
   GIT_COMMITTER_DATE  |-> commitAuthorDateSource]

CommitEnvNoCommitterDate(commitAuthorDateSource) ==
  [GIT_AUTHOR_NAME     |-> config.commitAuthorNameTarget,
   GIT_AUTHOR_EMAIL    |-> config.commitAuthorEmailTarget,
   GIT_AUTHOR_DATE     |-> commitAuthorDateSource,
   GIT_COMMITTER_NAME  |-> config.commitAuthorNameTarget,
   GIT_COMMITTER_EMAIL |-> config.commitAuthorEmailTarget,
   GIT_COMMITTER_DATE  |-> LocalIdentity.now]

\* createShadowCommit: the environment of `git commit`
CommitEnv(commitAuthorDateSource) ==
  [GIT_AUTHOR_NAME     |-> config.commitAuthorNameTarget,
   GIT_AUTHOR_EMAIL    |-> config.commitAuthorEmailTarget,
   GIT_AUTHOR_DATE     |-> commitAuthorDateSource,
   GIT_COMMITTER_NAME  |-> config.commitAuthorNameTarget,
   GIT_COMMITTER_EMAIL |-> config.commitAuthorEmailTarget,
   GIT_COMMITTER_DATE  |-> commitAuthorDateSource]

CreateCommitTracking ==
  /\ pc = "commit"
  /\ IF index = HeadArtifact(target)
     THEN /\ pc' = "aborted"
          /\ signal' = "CommitFailed"
          /\ UNCHANGED <<target, idx, emitted, shadowedShas>>
     ELSE /\ LET env == CommitEnv(filtered[idx].commitAuthorDateSource)
             IN  target' = Append(target,
                   [message        |-> commitMessage,
                    authorName     |-> env.GIT_AUTHOR_NAME,
                    authorEmail    |-> env.GIT_AUTHOR_EMAIL,
                    authorDate     |-> env.GIT_AUTHOR_DATE,
                    committerName  |-> env.GIT_COMMITTER_NAME,
                    committerEmail |-> env.GIT_COMMITTER_EMAIL,
                    committerDate  |-> env.GIT_COMMITTER_DATE,
                    artifact       |-> index])
          /\ emitted' = Append(emitted, commitMessage)
          /\ shadowedShas' = shadowedShas \cup {filtered[idx].commitShaSource}
          /\ idx' = idx + 1
          /\ pc' = "check"
          /\ signal' = signal
  /\ UNCHANGED <<history, disk, index, failures, dryRun, filtered,
                 shadowLogLines, stat, commitMessage, before, start, past>>

\* createShadowCommit: `git commit -m <message>` under the public identity and
\* the source date; git refuses a commit that changes nothing
CreateCommit ==
  /\ pc = "commit"
  /\ IF index = HeadArtifact(target)
     THEN /\ pc' = "aborted"
          /\ signal' = "CommitFailed"
          /\ UNCHANGED <<target, idx, emitted>>
     ELSE /\ LET env == CommitEnv(filtered[idx].commitAuthorDateSource)
             IN  target' = Append(target,
                   [message        |-> commitMessage,
                    authorName     |-> env.GIT_AUTHOR_NAME,
                    authorEmail    |-> env.GIT_AUTHOR_EMAIL,
                    authorDate     |-> env.GIT_AUTHOR_DATE,
                    committerName  |-> env.GIT_COMMITTER_NAME,
                    committerEmail |-> env.GIT_COMMITTER_EMAIL,
                    committerDate  |-> env.GIT_COMMITTER_DATE,
                    artifact       |-> index])
          /\ emitted' = Append(emitted, commitMessage)
          /\ idx' = idx + 1
          /\ pc' = "check"
          /\ signal' = signal
  /\ UNCHANGED <<history, disk, index, failures, dryRun, filtered, shadowedShas,
                 shadowLogLines, stat, commitMessage, before, start, past>>

\* what main logs once the loop is over: a blank line, the closing line and a
\* blank line
FinalLog == << <<>>, <<"All", SP, "commits", SP, "processed.">>, <<>> >>

FinishEarly ==
  /\ pc = "check"
  /\ idx >= Len(filtered)
  /\ pc' = "done"
  /\ signal' = "AllCommitsProcessed"
  /\ UNCHANGED <<durable, failures, dryRun, memory, emitted, before, start, past>>

\* the loop is over: "All commits processed."
Finish ==
  /\ pc = "check"
  /\ idx > Len(filtered)
  /\ pc' = "done"
  /\ signal' = "AllCommitsProcessed"
  /\ UNCHANGED <<durable, failures, dryRun, memory, emitted, before, start, past>>

\* the exit status of the process: process.exit(1) after the two warnings and
\* in main's catch, 0 when main returns
ExitStatus(p) == IF p = "done" THEN 0 ELSE 1

FailureOf(p) ==
  CASE p = "source" -> "HistoryUnavailable"
    [] p = "target" -> "LedgerUnavailable"
    [] p = "size"   -> "DiffUnavailable"
    [] OTHER        -> "CommitFailed"

GitFailsAndContinues ==
  /\ pc \in {"source", "target", "size", "add", "commit"}
  /\ failures < MaxFailures
  /\ failures' = failures + 1
  /\ IF pc \in {"size", "add", "commit"}
     THEN pc' = "check" /\ idx' = idx + 1 /\ signal' = signal
     ELSE pc' = "aborted" /\ idx' = idx /\ signal' = FailureOf(pc)
  /\ UNCHANGED <<durable, dryRun, filtered, shadowedShas, shadowLogLines, stat,
                 commitMessage, emitted, before, start, past>>

\* runGit throws (or the process is ended) at a git command; main's catch
\* exits with status 1
GitFails ==
  /\ pc \in {"source", "target", "size", "add", "commit"}
  /\ failures < MaxFailures
  /\ failures' = failures + 1
  /\ pc' = "aborted"
  /\ signal' = FailureOf(pc)
  /\ UNCHANGED <<durable, dryRun, memory, emitted, before, start, past>>

Next ==
  \/ Start
  \/ LoadSource
  \/ LoadTarget
  \/ CheckLedger
  \/ Size
  \/ Mutate
  \/ Preview
  \/ WriteArtifact
  \/ StageArtifact
  \/ CreateCommit
  \/ Finish
  \/ GitFails

Spec == Init /\ [][Next]_vars

\* a step of the loop over the filtered commits, or the step that ends it
Step ==
  \/ CheckLedger
  \/ Size
  \/ Mutate
  \/ Preview
  \/ WriteArtifact
  \/ StageArtifact
  \/ CreateCommit
  \/ Finish

\* the runs in which no git command is made to fail from outside
NextUndisturbed ==
  \/ Start
  \/ LoadSource
  \/ LoadTarget
  \/ Step

\* main runs synchronously: a process that is in its loop keeps taking steps
FairSpec == Init /\ [][NextUndisturbed]_vars /\ WF_vars(Step)

\* ------------------------------------------------------------ vocabulary of the claims
\* the process is past the loading of the target and has not stopped on an error
Processing == pc \in {"check", "size", "mutate", "emit", "add", "commit", "done"}

\* the buffer holds the mutation of the commit at idx
Mutated == pc \in {"emit", "add", "commit"}

\* the message begins with the short id, followed by a space or by nothing
Leads(sha, message) ==
  /\ Len(message) >= Len(sha)
  /\ SubSeq(message, 1, Len(sha)) = sha
  /\ Len(message) > Len(sha) => message[Len(sha) + 1] = SP

\* the target commits that stand for source commit i
MirrorsOf(tgt, i) == {k \in 1..Len(tgt) : Leads(history[i].sha, tgt[k].message)}

\* the target commits that stand for some source commit
Mirrors(tgt) == UNION {MirrorsOf(tgt, i) : i \in 1..Len(history)}

\* the source commit that target commit k stands for
MirroredBy(tgt, k) ==
  CHOOSE i \in 1..Len(history) : Leads(history[i].sha, tgt[k].message)

AllowList == {<<"alice@x">>}

\* the source commit the loop is at
Current == history[SourceOf(history, filtered[idx].commitShaSource)]

\* what the mirrored-commit message of source commit c is to be
WireMessage(c) ==
  c.sha \o <<SP>> \o c.date \o <<SP, "+" \o ToString(c.ins), SP, "-" \o ToString(c.del), SP>>
  \o c.author

\* ------------------------------------------------------------ C1
\* C1: once a normal-mode run has completed, a later run on the same source
\* history and the target that run left creates no target commit.
C1_Idempotent == past.done => target = start.target

\* a second normal-mode run has completed over a target that holds mirrored commits
C1_Witness ==
  /\ past.done
  /\ pc = "done"
  /\ ~dryRun
  /\ idx > 1
  /\ Mirrors(target) # {}

\* ------------------------------------------------------------ C2
\* C2 as stated: the mutation made for a mirrored commit removes exactly
\* `deletions` lines and adds exactly `insertions` lines, whatever the length
\* of the buffer.
C2_ExactMagnitude ==
  Mutated =>
    /\ stat.commitDeletions <= Len(before)
    /\ Len(shadowLogLines) = Len(before) - stat.commitDeletions + stat.commitInsertions
    /\ SubSeq(shadowLogLines, 1, Len(before) - stat.commitDeletions)
         = SubSeq(before, 1, Len(before) - stat.commitDeletions)

\* C2, amended: the mutation removes exactly min(deletions, length) lines, from
\* the end, and adds exactly `insertions` lines, where (insertions, deletions)
\* is the magnitude of the source commit.
C2_ClampedMagnitude ==
  Mutated =>
    LET removed == Min(Current.del, Len(before))
    IN  /\ Len(shadowLogLines) = Len(before) - removed + Current.ins
        /\ SubSeq(shadowLogLines, 1, Len(before) - removed)
             = SubSeq(before, 1, Len(before) - removed)
        /\ \A i \in (Len(before) - removed + 1)..Len(shadowLogLines) :
               shadowLogLines[i] = Current.sha

\* a commit that deletes more lines than the buffer holds has been applied
C2_Witness ==
  /\ Mutated
  /\ ~dryRun
  /\ Len(before) > 0
  /\ Current.del > Len(before)

\* ------------------------------------------------------------ C3
RECURSIVE AccountedLength(_, _)
\* the length the accounting rule gives after the commits named by the messages
AccountedLength(len, messages) ==
  IF messages = <<>> THEN len
  ELSE LET c == history[CHOOSE i \in 1..Len(history) :
                              Leads(history[i].sha, Head(messages))]
       IN  AccountedLength(Max(0, len - c.del) + c.ins, Tail(messages))

\* the messages of the commits whose mutation the buffer holds
Applied == IF Mutated THEN Append(emitted, commitMessage) ELSE emitted

\* C3: the length of the buffer is the length loaded at run start carried
\* through length' = max(0, length - deletions) + insertions over every commit
\* processed so far, in order; it is never reset and never negative.
C3_Accounting ==
  Processing =>
    /\ Len(shadowLogLines) = AccountedLength(Len(start.lines), Applied)
    /\ Len(shadowLogLines) >= 0

\* two commits have been processed in one run, the second one clamped
C3_Witness ==
  /\ Mutated
  /\ Len(emitted) >= 1
  /\ Current.del > Len(before)
  /\ Len(start.lines) > 0

\* ------------------------------------------------------------ C4
ZeroDiff(c) == c.ins = 0 /\ c.del = 0

\* C4: a filtered commit of magnitude {0,0} is skipped: the step that sizes it
\* leaves the target history, the artifact, the buffer and the ledger as they
\* were and moves the loop to the next commit; no such commit is ever mutated
\* into the buffer or mirrored.
C4_ZeroDiffSkip ==
  /\ [](\A k \in Mirrors(target) : ~ZeroDiff(history[MirroredBy(target, k)]))
  /\ [](pc \in {"mutate", "emit", "add", "commit"} => ~ZeroDiff(Current))
  /\ [][(pc = "size" /\ pc' # "aborted" /\ ZeroDiff(Current))
          => /\ pc' = "check"
             /\ idx' = idx + 1
             /\ UNCHANGED <<target, disk, index, shadowLogLines, shadowedShas>>]_vars

\* a zero-diff commit has just been sized and passed over, in normal mode
C4_Witness ==
  /\ pc = "check"
  /\ ~dryRun
  /\ idx > 1
  /\ ~AlreadyShadowed(filtered[idx - 1], shadowedShas)
  /\ ZeroDiff(history[SourceOf(history, filtered[idx - 1].commitShaSource)])
  /\ idx <= Len(filtered)

\* ------------------------------------------------------------ C5
\* the short id leads a message the target held at run start
InLedgerAtStart(sha) ==
  \E k \in 1..Len(start.target) : Leads(sha, start.target[k].message)

\* C5: a filtered commit whose short id is in the ledger read at run start is
\* skipped: it is not sized, the buffer and the target are not touched and the
\* loop moves to the next commit; no such commit is sized, mutated or mirrored
\* in the run.
C5_LedgerSkip ==
  /\ [](pc \in {"size", "mutate", "emit", "add", "commit"}
          => ~InLedgerAtStart(filtered[idx].commitShaSource))
  /\ [](\A k \in (Len(start.target) + 1)..Len(target) :
            \A i \in 1..Len(history) :
              Leads(history[i].sha, target[k].message) => ~InLedgerAtStart(history[i].sha))
  /\ [][(pc = "check" /\ idx <= Len(filtered)
           /\ InLedgerAtStart(filtered[idx].commitShaSource))
          => /\ pc' = "check"
             /\ idx' = idx + 1
             /\ UNCHANGED <<stat, shadowLogLines, target, disk, index>>]_vars

\* a commit mirrored by an earlier run has just been passed over
C5_Witness ==
  /\ pc = "check"
  /\ idx > 1
  /\ InLedgerAtStart(filtered[idx - 1].commitShaSource)
  /\ stat = NoStat

\* ------------------------------------------------------------ C6
Qualifying(c) == c.author \in AllowList /\ ~ZeroDiff(c)

\* C6: no source commit is ever mirrored by two target commits, and when a
\* normal-mode run completes after an earlier normal-mode run aborted, every
\* allow-listed, non-zero-diff source commit is mirrored by exactly one target
\* commit.
C6_Resumable ==
  /\ \A i \in 1..Len(history) : Cardinality(MirrorsOf(target, i)) <= 1
  /\ (pc = "done" /\ ~dryRun /\ past.aborted)
       => \A i \in 1..Len(history) :
            Qualifying(history[i]) => Cardinality(MirrorsOf(target, i)) = 1

\* a run has completed after an aborted one, with commits mirrored by both
C6_Witness ==
  /\ pc = "done"
  /\ ~dryRun
  /\ past.aborted
  /\ Mirrors(start.target) # {}
  /\ Len(target) > Len(start.target)
  /\ failures > 0

\* ------------------------------------------------------------ C7
\* C7: the mirrored commits stand in the target history in the order of their
\* source commits in the oldest-first source history.
C7_OrderPreserved ==
  \A j, k \in Mirrors(target) :
    j < k => MirroredBy(target, j) < MirroredBy(target, k)

\* two source commits have been mirrored
C7_Witness == Cardinality(Mirrors(target)) >= 2

\* ------------------------------------------------------------ C8
\* the messages a preview is to print: those of the allow-listed commits that
\* are not in the ledger and not zero-diff, oldest first
PreviewOf(hist) ==
  LET due == SelectSeq(hist, LAMBDA c : Qualifying(c) /\ ~InLedgerAtStart(c.sha))
  IN  [i \in 1..Len(due) |-> WireMessage(due[i])]

\* C8: throughout a run with --dry-run the target history, the artifact on
\* disk and the index are what they were at run start, and a preview that
\* completes has printed the message of every qualifying commit.
C8_PreviewWritesNothing ==
  /\ (dryRun /\ pc # "idle")
       => target = start.target /\ disk = start.disk /\ index = start.index
  /\ (dryRun /\ pc = "done") => emitted = PreviewOf(history)

\* a preview has completed and printed the messages of two commits
C8_Witness ==
  /\ dryRun
  /\ pc = "done"
  /\ Len(emitted) >= 2

\* ------------------------------------------------------------ C9
\* C9: no merge commit of the source branch is in the sequence the loop runs
\* over, so none is sized or mirrored.
C9_NoMergeCommits ==
  /\ \A i \in 1..Len(filtered) :
        IsSource(history, filtered[i].commitShaSource)
          => ~history[SourceOf(history, filtered[i].commitShaSource)].merge
  /\ \A k \in Mirrors(target) : ~history[MirroredBy(target, k)].merge

\* ------------------------------------------------------------ C10
\* C10: only commits whose author is exactly a member of the allow-list are in
\* the filtered sequence, are sized, mutate the buffer or are mirrored; every
\* line of the buffer and of the artifact comes from such a commit.
C10_AuthorFilter ==
  /\ \A i \in 1..Len(filtered) : filtered[i].commitAuthorEmailSource \in AllowList
  /\ pc \in {"size", "mutate", "emit", "add", "commit"} => Current.author \in AllowList
  /\ \A k \in Mirrors(target) : history[MirroredBy(target, k)].author \in AllowList
  /\ \A line \in Range(shadowLogLines) \cup Range(getShadowLogLines(disk)) :
        IsSource(history, line) => history[SourceOf(history, line)].author \in AllowList

\* a commit by another author was passed over and a later commit was mirrored
C10_Witness ==
  \E i, j \in 1..Len(history) :
    /\ i < j
    /\ history[i].author \notin AllowList
    /\ MirrorsOf(target, j) # {}
    /\ MirrorsOf(target, i) = {}
    /\ pc = "done"

\* ------------------------------------------------------------ C11
\* the target commits the engine created
Created(tgt) == {k \in 1..Len(tgt) : tgt[k] # ForeignCommit}

\* C11: the message of every mirrored commit, as built for the commit in hand
\* and as stored in the target, is the short id, the author timestamp,
\* +insertions, -deletions and the author identity of its source commit, in
\* that order with one space between them, and the ledger's parse of that
\* message gives back exactly the short id.
C11_MessageRoundTrip ==
  /\ Mutated =>
       /\ commitMessage = WireMessage(Current)
       /\ FirstToken(commitMessage) = Current.sha
  /\ \A k \in Created(target) :
       \E i \in 1..Len(history) :
         /\ target[k].message = WireMessage(history[i])
         /\ FirstToken(target[k].message) = history[i].sha

\* a commit that both inserts and deletes has been mirrored into the target
C11_Witness ==
  \E k \in Created(target) :
    /\ history[MirroredBy(target, k)].ins > 0
    /\ history[MirroredBy(target, k)].del > 0

\* ------------------------------------------------------------ C12
\* C12: every target commit the engine created carries the configured public
\* name and e-mail as author and as committer, whoever wrote the source commit.
C12_IdentitySubstitution ==
  \A k \in Created(target) :
    /\ target[k].authorName = config.commitAuthorNameTarget
    /\ target[k].authorEmail = config.commitAuthorEmailTarget
    /\ target[k].committerName = config.commitAuthorNameTarget
    /\ target[k].committerEmail = config.commitAuthorEmailTarget

\* a commit of a source author other than the public identity has been mirrored
C12_Witness ==
  \E k \in Created(target) :
    /\ k \in Mirrors(target)
    /\ history[MirroredBy(target, k)].author # config.commitAuthorEmailTarget

\* ------------------------------------------------------------ C13
\* C13: the author date and the committer date of every target commit the
\* engine created are both the author timestamp of the source commit it
\* mirrors, unchanged.
C13_TimestampFidelity ==
  \A k \in Created(target) :
    /\ k \in Mirrors(target)
    /\ target[k].authorDate = history[MirroredBy(target, k)].date
    /\ target[k].committerDate = history[MirroredBy(target, k)].date

\* two commits with different author timestamps have been mirrored
C13_Witness ==
  \E j, k \in Created(target) : target[j].authorDate # target[k].authorDate

\* ------------------------------------------------------------ C14
\* C14: a failure of the diff-stat read or of the stage/commit step on a commit
\* ends the run at once with a non-zero exit status: the step that fails
\* creates no target commit and does not move the loop, nothing further is
\* sized or mirrored by that process (the only step after it is the start of a
\* new process), and the target commits created earlier in the run remain.
C14_FatalAbort ==
  /\ [][(failures' # failures /\ pc \in {"size", "add", "commit"})
          => /\ pc' = "aborted"
             /\ signal' \in {"DiffUnavailable", "CommitFailed"}
             /\ UNCHANGED <<target, idx, emitted>>]_vars
  /\ [][(pc # "aborted" /\ pc' = "aborted") => UNCHANGED <<target, idx, emitted>>]_vars
  /\ [][pc = "aborted" => (pc' = "source" /\ UNCHANGED target)]_vars
  /\ []((pc = "aborted" /\ signal \in {"DiffUnavailable", "CommitFailed"})
          => /\ ExitStatus(pc) # 0
             /\ SubSeq(target, 1, Len(start.target)) = start.target
             /\ dryRun => target = start.target
             /\ ~dryRun =>
                  /\ Len(target) = Len(start.target) + Len(emitted)
                  /\ \A j \in 1..Len(emitted) :
                       target[Len(start.target) + j].message = emitted[j])

\* a normal-mode run has ended on a failed diff-stat read with a later
\* filtered commit still to come
C14_Witness ==
  /\ pc = "aborted"
  /\ signal = "DiffUnavailable"
  /\ ~dryRun
  /\ idx < Len(filtered)

\* ------------------------------------------------------------ C15
\* C15: when the source history is empty, a run that has ended has signalled
\* NoCommits, with a non-zero exit status, without having read the ledger or
\* the buffer and without having written to the target.
C15_NoCommitsSignal ==
  (history = <<>> /\ pc \in Terminal) =>
    /\ signal = "NoCommits"
    /\ ExitStatus(pc) # 0
    /\ shadowedShas = {}
    /\ shadowLogLines = <<>>
    /\ target = start.target
    /\ disk = start.disk

\* ------------------------------------------------------------ C16
\* no commit of the history is by an allow-listed author
NoneAllowed == \A i \in 1..Len(history) : history[i].author \notin AllowList

\* C16: when the source history is not empty and none of its commits is by an
\* allow-listed author, a run never gets past the author filter: it ends
\* there with the NoMatchingAuthors signal and a non-zero exit status, the
\* ledger and the buffer are never loaded, and the target history and the
\* artifact stay as they were at its start.
C16_NoMatchingAuthors ==
  (history # <<>> /\ NoneAllowed /\ pc \notin {"idle", "source"}) =>
    /\ pc \in {"exited", "aborted"}
    /\ pc = "exited" => (signal = "NoMatchingAuthors" /\ ExitStatus(pc) # 0)
    /\ pc = "aborted" => signal = "HistoryUnavailable"
    /\ shadowedShas = {}
    /\ shadowLogLines = <<>>
    /\ target = start.target
    /\ disk = start.disk
    /\ index = start.index

\* a run over a history of two commits, neither by an allow-listed author, has
\* ended at the author filter
C16_Witness ==
  /\ Len(history) = 2
  /\ NoneAllowed
  /\ pc = "exited"
  /\ signal = "NoMatchingAuthors"

\* ------------------------------------------------------------ C17
\* C17: in normal mode, when no read and no git command has been made to fail,
\* a run that has ended over a target with a readable ledger has created a
\* target commit for every filtered commit that was not in the ledger at run
\* start and whose magnitude is not {0,0}, deletion-only commits included.
C17_QualifyingMirrored ==
  (~dryRun /\ failures = 0 /\ pc \in {"done", "aborted"} /\ target # <<>>) =>
    \A i \in 1..Len(history) :
      (Qualifying(history[i]) /\ ~InLedgerAtStart(history[i].sha)) =>
        \E k \in (Len(start.target) + 1)..Len(target) :
          Leads(history[i].sha, target[k].message)

\* ------------------------------------------------------------ C18
RECURSIVE Replay(_, _, _)
\* the buffer one uninterrupted run holds after mirroring, from the buffer
\* `lines`, the source commits behind the target commits k, k+1, ... of tgt
Replay(lines, tgt, k) ==
  IF k > Len(tgt) THEN lines
  ELSE IF k \notin Created(tgt) THEN Replay(lines, tgt, k + 1)
  ELSE LET c == history[MirroredBy(tgt, k)]
       IN  Replay(SubSeq(lines, 1, Len(lines) - Min(c.del, Len(lines)))
                    \o [j \in 1..c.ins |-> c.sha],
                  tgt, k + 1)

\* C18: after a normal-mode run has aborted, the buffer a later run loads is
\* the buffer as it stood after the last commit that was mirrored, which is
\* the buffer an uninterrupted run over the mirrored commits arrives at.
C18_ResumeReloads ==
  (past.aborted /\ Processing) => start.lines = Replay(<<>>, start.target, 1)

\* ------------------------------------------------------------ C19
\* the buffer at run start carried through the mutations of the commits for
\* which the run has created a target commit
MirroredSoFar == Replay(start.lines, target, Len(start.target) + 1)

\* C19: in normal mode, between commits and at the end of a run, the buffer
\* and the artifact differ from what they were at run start only by the
\* mutations of the commits for which the run created a target commit: the
\* buffer is the start buffer carried through those mutations, and the
\* artifact is as it was at run start when no target commit was created and
\* is the written form of that buffer otherwise.
C19_OnlyMirroredChange ==
  (~dryRun /\ pc \in {"check", "done", "aborted"}) =>
    /\ pc # "aborted" => shadowLogLines = MirroredSoFar
    /\ disk = IF Len(target) = Len(start.target)
              THEN start.disk
              ELSE writeLinesToShadowLogFile(MirroredSoFar)

\* ------------------------------------------------------------ C20
\* C20: the artifact just written from the buffer loads back as that buffer,
\* with the same length, whatever the buffer holds (nothing at all included),
\* and an absent artifact loads as the empty sequence.
C20_RoundTrip ==
  /\ pc \in {"add", "commit"} =>
       /\ getShadowLogLines(disk) = shadowLogLines
       /\ Len(getShadowLogLines(disk)) = Len(shadowLogLines)
  /\ getShadowLogLines(NoFile) = <<>>

\* ------------------------------------------------------------ C21
\* C21: the buffer after the mutation is the first len - min(deletions, len)
\* elements of the buffer before it, in their order, followed by `insertions`
\* copies of the short id of the commit in hand; the mutation step cannot fail.
C21_ApplySemantics ==
  /\ Mutated =>
       LET keep == Len(before) - Min(stat.commitDeletions, Len(before))
       IN  shadowLogLines =
             [j \in 1..(keep + stat.commitInsertions) |->
                IF j <= keep THEN before[j] ELSE filtered[idx].commitShaSource]
  /\ pc = "mutate" => ENABLED Mutate

\* a commit that inserts and deletes has been applied to a buffer holding more
\* lines than it deletes
C21_Witness ==
  /\ Mutated
  /\ stat.commitInsertions > 0
  /\ stat.commitDeletions > 0
  /\ Len(before) > stat.commitDeletions

\* ------------------------------------------------------------ C22
\* C22: for a commit being mirrored the order is mutate, write, stage, commit.
\* From the mutation to the commit the buffer is the buffer before it with the
\* one mutation applied; once written, the artifact is the written form of
\* that buffer; once staged, the index holds the artifact; and the commit just
\* created holds the artifact that is the written form of the buffer, which is
\* also what is on disk.
C22_WriteOrdering ==
  /\ Mutated =>
       shadowLogLines = ApplyDiff(before, stat.commitInsertions, stat.commitDeletions,
                                  filtered[idx].commitShaSource)
  /\ pc \in {"add", "commit"} => disk = writeLinesToShadowLogFile(shadowLogLines)
  /\ pc = "commit" => index = disk
  /\ (~dryRun /\ pc \in {"check", "done"} /\ Len(target) > Len(start.target)) =>
       /\ target[Len(target)].artifact = writeLinesToShadowLogFile(shadowLogLines)
       /\ disk = target[Len(target)].artifact

\* a run has created two target commits, the second with a buffer that holds
\* lines
C22_Witness ==
  /\ ~dryRun
  /\ pc = "check"
  /\ Len(target) >= Len(start.target) + 2
  /\ Len(shadowLogLines) > 0

\* ------------------------------------------------------------ C23
\* the filtered commits whose short id leads a message emitted by this run
EmittedInRun ==
  {i \in 1..Len(filtered) :
     \E j \in 1..Len(emitted) : Leads(filtered[i].commitShaSource, emitted[j])}

TotalsLogged ==
  LET digits == SelectSeq(Join(FinalLog, NL), IsDigits)
  IN  [k \in 1..Len(digits) |-> ParseInt(digits[k])]

\* the filtered commits the ledger check skipped
SkippedByLedger == {i \in 1..Len(filtered) : AlreadyShadowed(filtered[i], shadowedShas)}

\* the filtered commits skipped as zero-diff
SkippedZeroDiff ==
  {i \in 1..Len(filtered) \ SkippedByLedger :
     ZeroDiff(history[SourceOf(history, filtered[i].commitShaSource)])}

\* C24 as stated: on reaching the end of the loop the run reports four totals: commits
\* examined, mirrored, skipped by the ledger and skipped as zero-diff, where
\* examined = mirrored + skipped (ledger) + skipped (zero-diff) = the number of
\* filtered commits.
C24_TotalsReported ==
  pc = "done" =>
    /\ Len(TotalsLogged) = 4
    /\ TotalsLogged = <<Len(filtered), Len(emitted), Cardinality(SkippedByLedger),
                        Cardinality(SkippedZeroDiff)>>
    /\ Len(filtered) = Len(emitted) + Cardinality(SkippedByLedger)
                         + Cardinality(SkippedZeroDiff)

\* C24, amended: on reaching the end of the loop the run logs the closing line
\* and no totals; every filtered commit has been mirrored (previewed in
\* preview mode), skipped by the ledger or skipped as zero-diff, so the number
\* of filtered commits is the sum of the three counts, and in normal mode the
\* number mirrored is the number of target commits the run created.
C24_OutcomesAddUp ==
  pc = "done" =>
    /\ TotalsLogged = <<>>
    /\ \E l \in 1..Len(FinalLog) : FinalLog[l] # <<>>
    /\ idx = Len(filtered) + 1
    /\ Len(filtered) = Len(emitted) + Cardinality(SkippedByLedger)
                         + Cardinality(SkippedZeroDiff)
    /\ ~dryRun => Len(target) = Len(start.target) + Len(emitted)

\* a normal-mode run has ended after mirroring one commit and skipping another
\* by the ledger
C24_Witness ==
  /\ pc = "done"
  /\ ~dryRun
  /\ Len(emitted) = 1
  /\ Cardinality(SkippedByLedger) = 1

\* ------------------------------------------------------------ C25
\* C25: a run that has entered the loop reaches Done unless git refuses a
\* commit; the loop moves through the filtered sequence one commit at a time,
\* and the filtered sequence is in the order of the source history, oldest
\* first; at Done every filtered commit has been examined and is in exactly one
\* of: skipped by the ledger, skipped as zero-diff, emitted (previewed in
\* preview mode, committed in normal mode).
C25_Termination ==
  /\ (pc = "check") ~> (pc = "done" \/ (pc = "aborted" /\ signal = "CommitFailed"))
  /\ [][(pc # "source" /\ pc' # "source") => idx' \in {idx, idx + 1}]_vars
  /\ [](\A i, j \in 1..Len(filtered) :
          i < j => SourceOf(history, filtered[i].commitShaSource)
                     < SourceOf(history, filtered[j].commitShaSource))
  /\ [](pc = "done" =>
          /\ idx = Len(filtered) + 1
          /\ SkippedByLedger \cup SkippedZeroDiff \cup EmittedInRun = 1..Len(filtered)
          /\ SkippedByLedger \cap EmittedInRun = {}
          /\ SkippedZeroDiff \cap EmittedInRun = {}
          /\ SkippedByLedger \cap SkippedZeroDiff = {}
          /\ Len(emitted) = Cardinality(EmittedInRun))

\* a preview run has reached Done after previewing one commit and skipping
\* another as zero-diff
C25_Witness ==
  /\ pc = "done"
  /\ dryRun
  /\ Len(emitted) = 1
  /\ Cardinality(SkippedZeroDiff) = 1

\* ------------------------------------------------------------ C26
\* C26: a normal-mode run against a target that has no commit and no
\* artifact, with no git command made to fail from outside, does not stop at
\* the ledger read: it starts from an empty ledger and an empty buffer, and
\* when it has ended every qualifying commit has a target commit.
C26_FreshTargetMirrors ==
  (~dryRun /\ start.target = <<>> /\ start.disk = NoFile /\ failures = 0
     /\ pc \in {"done", "aborted"}) =>
    /\ signal # "LedgerUnavailable"
    /\ \A i \in 1..Len(history) :
         Qualifying(history[i]) =>
           \E k \in 1..Len(target) : Leads(history[i].sha, target[k].message)

\* ------------------------------------------------------------ C27
\* the messages of the target commits the run has created, in order
CreatedInRun ==
  [k \in 1..(Len(target) - Len(start.target)) |-> target[Len(start.target) + k].message]

\* C27: from one source history and one ledger, whatever the artifact holds, a
\* preview run that completes has emitted, and a normal-mode run that completes
\* has given to the target commits it created, the same sequence of messages:
\* those of the qualifying commits not in the ledger at run start, oldest first.
C27_PreviewPredicts ==
  pc = "done" =>
    IF dryRun THEN emitted = PreviewOf(history) /\ CreatedInRun = <<>>
    ELSE CreatedInRun = PreviewOf(history) /\ emitted = CreatedInRun

\* a normal-mode run has completed over an artifact that held lines at its
\* start and has created target commits
C27_Witness ==
  /\ pc = "done"
  /\ ~dryRun
  /\ Len(start.lines) > 0
  /\ Len(CreatedInRun) >= 1

====
